---- MODULE Spec2Model ----
(***************************************************************************)
(* Model of src/src/components/WeatherDashboard.tsx: the WeatherDashboard  *)
(* component's state (data, loading, selectedRegion, selectedParameter),   *)
(* the synthetic series generator inside fetchWeatherData, the delayed     *)
(* completion of a request, and the statistics derived from the displayed  *)
(* series.                                                                 *)
(*                                                                         *)
(* Numbers.  The code computes in IEEE doubles.  Here every value is an    *)
(* integer count of thousandths (14.8 is 14800), products are rescaled by  *)
(* dividing by 1000, and Math.sin is a truncated Taylor polynomial on      *)
(* thousandths of a radian.  Math.random() is a draw in thousandths from   *)
(* Draws, a subset of 0..999, i.e. of [0, 1).                              *)
(*                                                                         *)
(* Not modelled: animationClass, hoveredData and the toast, which no       *)
(* other state depends on.                                                 *)
(***************************************************************************)
EXTENDS Integers, Sequences, FiniteSets

VARIABLES
    data,               \* useState<WeatherData[]>([])
    loading,            \* useState(false)
    selectedRegion,     \* useState('UK')
    selectedParameter,  \* useState('Tmax')
    currentYear,        \* what new Date().getFullYear() returns
    mounted,            \* whether the mount effect has run
    pending,            \* requests suspended at the await, in timer order
    issued,             \* history: number of requests issued so far
    dataReq,            \* history: number of the request that set data (0: none)
    dataDraws           \* history: the random draws behind data

vars == <<data, loading, selectedRegion, selectedParameter, currentYear,
          mounted, pending, issued, dataReq, dataDraws>>

----------------------------------------------------------------------------
(* Bounds *)

\* currentYear ranges over BaseYear+1 .. BaseYear+MaxYears
MaxYears == 2

\* at most this many requests are issued in a behaviour
MaxRequests == 3

\* the values Math.random() may return, in thousandths
Draws == {0, 500, 999}

\* the longest year range the generator's formula is evaluated on
\* (2026 - 1884)
Horizon == 142

----------------------------------------------------------------------------
(* Constants of the source *)

BaseYear == 1884

RegionValues == {"UK", "England", "Wales", "Scotland", "NorthernIreland"}

ParameterValues == {"Tmax", "Tmin", "Tmean", "Rainfall", "Sunshine"}

\* WeatherData.region and .parameter are plain strings: values outside the
\* two lists, used to exercise the generator's fall-through branches.
RegionInputs == RegionValues \cup {"Atlantis"}

ParameterInputs == ParameterValues \cup {"Humidity"}

----------------------------------------------------------------------------
(* The generator: the callback of Array.from in fetchWeatherData *)

\* Math.sin(x) for x >= 0, x and the result in thousandths: x is reduced
\* modulo 2*pi (6283) to the first quadrant, where the Taylor polynomial
\* v - v^3/3! + v^5/5! - v^7/7! + v^9/9! is good to about 0.002.
Sin(x) ==
    LET t  == x % 6283
        u  == IF t >= 3142 THEN t - 3142 ELSE t
        v  == IF u > 1571 THEN 3142 - u ELSE u
        v2 == (v * v) \div 1000
        v3 == (((v * v) \div 10) * v) \div 100000
        v5 == (v3 * v2) \div 1000
        v7 == (v5 * v2) \div 1000
        v9 == (v7 * v2) \div 1000
        p  == v - (v3 \div 6) + (v5 \div 120) - (v7 \div 5040) + (v9 \div 362880)
    IN  IF t >= 3142 THEN 0 - p ELSE p

\* const yearProgress = i / yearRange
YearProgress(i, yearRange) == (i * 1000) \div yearRange

\* the regions each case of the switch compares selectedRegion with
NamedRegions(parameter) ==
    CASE parameter \in {"Tmax", "Tmin", "Tmean"} -> {"Scotland", "UK"}
      [] parameter = "Rainfall" -> {"Wales", "Scotland"}
      [] parameter = "Sunshine" -> {"Scotland", "England"}
      [] OTHER -> {}

\* baseValue with the temperature cases ending in the UK's constant
BaseValueUKLast(region, parameter) ==
    CASE parameter = "Tmax" ->
           IF region = "Scotland" THEN 13200
           ELSE IF region = "England" THEN 15100 ELSE 14800
      [] parameter = "Tmin" ->
           IF region = "Scotland" THEN 4100
           ELSE IF region = "England" THEN 6800 ELSE 6200
      [] parameter = "Tmean" ->
           IF region = "Scotland" THEN 8700
           ELSE IF region = "England" THEN 11000 ELSE 10500
      [] parameter = "Rainfall" ->
           IF region = "Wales" THEN 1680000
           ELSE IF region = "Scotland" THEN 1500000 ELSE 1154000
      [] parameter = "Sunshine" ->
           IF region = "Scotland" THEN 1250000
           ELSE IF region = "England" THEN 1550000 ELSE 1400000
      [] OTHER -> 100000

\* baseValue with default: baseValue = 0
BaseValueDefaultZero(region, parameter) ==
    CASE parameter = "Tmax" ->
           IF region = "Scotland" THEN 13200
           ELSE IF region = "UK" THEN 14800 ELSE 15100
      [] parameter = "Tmin" ->
           IF region = "Scotland" THEN 4100
           ELSE IF region = "UK" THEN 6200 ELSE 6800
      [] parameter = "Tmean" ->
           IF region = "Scotland" THEN 8700
           ELSE IF region = "UK" THEN 10500 ELSE 11000
      [] parameter = "Rainfall" ->
           IF region = "Wales" THEN 1680000
           ELSE IF region = "Scotland" THEN 1500000 ELSE 1154000
      [] parameter = "Sunshine" ->
           IF region = "Scotland" THEN 1250000
           ELSE IF region = "England" THEN 1550000 ELSE 1400000
      [] OTHER -> 0

\* baseValue of each case of the switch
BaseValue(region, parameter) ==
    CASE parameter = "Tmax" ->
           IF region = "Scotland" THEN 13200
           ELSE IF region = "UK" THEN 14800 ELSE 15100
      [] parameter = "Tmin" ->
           IF region = "Scotland" THEN 4100
           ELSE IF region = "UK" THEN 6200 ELSE 6800
      [] parameter = "Tmean" ->
           IF region = "Scotland" THEN 8700
           ELSE IF region = "UK" THEN 10500 ELSE 11000
      [] parameter = "Rainfall" ->
           IF region = "Wales" THEN 1680000
           ELSE IF region = "Scotland" THEN 1500000 ELSE 1154000
      [] parameter = "Sunshine" ->
           IF region = "Scotland" THEN 1250000
           ELSE IF region = "England" THEN 1550000 ELSE 1400000
      [] OTHER -> 100000

\* seasonalVariation = Math.sin(i * frequency) * amplitude
SeasonalVariation(i, parameter) ==
    CASE parameter = "Tmax"     -> (Sin(i * 150) * 1200) \div 1000
      [] parameter = "Tmin"     -> (Sin(i * 180) * 900) \div 1000
      [] parameter = "Tmean"    -> (Sin(i * 160) * 1000) \div 1000
      [] parameter = "Rainfall" -> (Sin(i * 120) * 200000) \div 1000
      [] parameter = "Sunshine" -> (Sin(i * 140) * 150000) \div 1000
      [] OTHER -> 0

\* longTermTrend = yearProgress * slope
LongTermTrend(yearProgress, parameter) ==
    CASE parameter = "Tmax"     -> (yearProgress * 1800) \div 1000
      [] parameter = "Tmin"     -> (yearProgress * 1500) \div 1000
      [] parameter = "Tmean"    -> (yearProgress * 1600) \div 1000
      [] parameter = "Rainfall" -> (yearProgress * 50000) \div 1000
      [] parameter = "Sunshine" -> (yearProgress * (-20000)) \div 1000
      [] OTHER -> 0

\* randomNoise with the Tmin amplitude 12 for 1.2
RandomNoiseTminTenfold(r, parameter) ==
    CASE parameter = "Tmax"     -> ((r - 500) * 1500) \div 1000
      [] parameter = "Tmin"     -> ((r - 500) * 12000) \div 1000
      [] parameter = "Tmean"    -> ((r - 500) * 1000) \div 1000
      [] parameter = "Rainfall" -> ((r - 500) * 300000) \div 1000
      [] parameter = "Sunshine" -> ((r - 500) * 200000) \div 1000
      [] OTHER -> 0

\* randomNoise = (Math.random() - 0.5) * amplitude; r is the draw.
\* The default case draws nothing.
RandomNoise(r, parameter) ==
    CASE parameter = "Tmax"     -> ((r - 500) * 1500) \div 1000
      [] parameter = "Tmin"     -> ((r - 500) * 1200) \div 1000
      [] parameter = "Tmean"    -> ((r - 500) * 1000) \div 1000
      [] parameter = "Rainfall" -> ((r - 500) * 300000) \div 1000
      [] parameter = "Sunshine" -> ((r - 500) * 200000) \div 1000
      [] OTHER -> 0

\* Math.max(a, b)
Max(a, b) == IF a >= b THEN a ELSE b

\* the sum handed to Math.max
ComponentSum(region, parameter, i, yearRange, r) ==
    BaseValue(region, parameter)
      + SeasonalVariation(i, parameter)
      + LongTermTrend(YearProgress(i, yearRange), parameter)
      + RandomNoise(r, parameter)

\* a slip of '-' for ',' in Math.max(0, baseValue + ...)
PointValueMinusForComma(region, parameter, i, yearRange, r) ==
    (0 - BaseValue(region, parameter))
      + SeasonalVariation(i, parameter)
      + LongTermTrend(YearProgress(i, yearRange), parameter)
      + RandomNoise(r, parameter)

\* value: Math.max(0, baseValue + seasonalVariation + longTermTrend + randomNoise)
PointValue(region, parameter, i, yearRange, r) ==
    Max(0, ComponentSum(region, parameter, i, yearRange, r))

\* const year = baseYear + i, off by one
PointYearOffByOne(i) == BaseYear + i + 1

\* const year = baseYear + i
PointYear(i) == BaseYear + i

\* the record the callback returns for index i (0-based)
Point(region, parameter, i, yearRange, r) ==
    [year      |-> PointYear(i),
     value     |-> PointValue(region, parameter, i, yearRange, r),
     region    |-> region,
     parameter |-> parameter]

\* mockData = Array.from({ length: yearRange }, (_, i) => ...); rs[k] is the
\* draw of index k - 1
MockData(region, parameter, yearRange, rs) ==
    [k \in 1..yearRange |-> Point(region, parameter, k - 1, yearRange, rs[k])]

----------------------------------------------------------------------------
(* Derived statistics: recomputed from data on every render *)

\* what reading a variable holding no value yields
Undefined == "undefined"

\* a[idx] of a JavaScript array, idx 0-based; out of range reads undefined
ArrayGet(a, idx) == IF idx >= 0 /\ idx < Len(a) THEN a[idx + 1] ELSE Undefined

\* data.reduce((sum, d) => sum + d.value, 0)
RECURSIVE SumValues(_)
SumValues(a) == IF Len(a) = 0 THEN 0 ELSE a[1].value + SumValues(Tail(a))

\* const latest = data[data.length - 1]
Latest(a) == ArrayGet(a, Len(a) - 1)

\* the sum divided by one more than the number of points
AverageOffByOne(a) ==
    IF Len(a) > 0 THEN SumValues(a) \div (Len(a) + 1) ELSE 0

\* const average = data.length > 0 ? data.reduce(...) / data.length : 0
Average(a) == IF Len(a) > 0 THEN SumValues(a) \div Len(a) ELSE 0

\* first minus last instead of last minus first
TrendReversed(a) ==
    IF Len(a) > 1 THEN a[1].value - a[Len(a)].value ELSE 0

\* const trend = data.length > 1 ? data[data.length - 1].value - data[0].value : 0
Trend(a) ==
    IF Len(a) > 1
    THEN ArrayGet(a, Len(a) - 1).value - ArrayGet(a, 0).value
    ELSE 0

\* data.length >= 0 instead of data.length > 0
StatsDisplayedOnEmpty(a) == Len(a) >= 0

\* {data.length > 0 && (...)}: the statistics cards and the chart
StatsDisplayed(a) == Len(a) > 0

\* getParameterInfo(param).unit, the suffix formatValue appends
Unit(parameter) ==
    CASE parameter \in {"Tmax", "Tmin", "Tmean"} -> "°C"
      [] parameter = "Rainfall" -> "mm"
      [] parameter = "Sunshine" -> "hrs"
      [] OTHER -> ""

\* the unit of formatValue(latest?.value || 0, selectedParameter) and of
\* formatValue(average, selectedParameter) in the statistics cards
displayedUnit == Unit(selectedParameter)

latest == Latest(data)

average == Average(data)

trend == Trend(data)

statsDisplayed == StatsDisplayed(data)

----------------------------------------------------------------------------
(* Operations *)

\* fetchWeatherData up to its await: setLoading(true), the series is
\* generated from the selection of the render the closure belongs to, and
\* the continuation is parked behind a 1200 ms timer.
FetchWeatherData(region, parameter) ==
    /\ loading' = TRUE
    /\ issued' = issued + 1
    /\ \E rs \in [1..(currentYear - BaseYear) -> Draws] :
          pending' = Append(pending,
                            [id       |-> issued + 1,
                             mockData |-> MockData(region, parameter,
                                                   currentYear - BaseYear, rs),
                             draws    |-> rs])
    /\ UNCHANGED <<data, currentYear, dataReq, dataDraws>>

\* the first run of useEffect(() => { fetchWeatherData() }, [...])
Mount ==
    /\ ~mounted
    /\ mounted' = TRUE
    /\ FetchWeatherData(selectedRegion, selectedParameter)
    /\ UNCHANGED <<selectedRegion, selectedParameter>>

\* a selection change that is not followed by the effect
SelectRegionWithoutEffect(r) ==
    /\ mounted
    /\ ~loading
    /\ issued < MaxRequests
    /\ r # selectedRegion
    /\ selectedRegion' = r
    /\ UNCHANGED <<data, loading, selectedParameter, currentYear, mounted,
                   pending, issued, dataReq, dataDraws>>

\* the region Select: onValueChange={setSelectedRegion}, disabled={loading};
\* the effect then runs fetchWeatherData of the new render
SelectRegion(r) ==
    /\ mounted
    /\ ~loading
    /\ issued < MaxRequests
    /\ r # selectedRegion
    /\ selectedRegion' = r
    /\ FetchWeatherData(r, selectedParameter)
    /\ UNCHANGED <<selectedParameter, mounted>>

\* the parameter Select: onValueChange={setSelectedParameter}, disabled={loading}
SelectParameter(p) ==
    /\ mounted
    /\ ~loading
    /\ issued < MaxRequests
    /\ p # selectedParameter
    /\ selectedParameter' = p
    /\ FetchWeatherData(selectedRegion, p)
    /\ UNCHANGED <<selectedRegion, mounted>>

\* the button without disabled={loading}
RefreshWhileLoading ==
    /\ mounted
    /\ issued < MaxRequests
    /\ FetchWeatherData(selectedRegion, selectedParameter)
    /\ UNCHANGED <<selectedRegion, selectedParameter, mounted>>

\* the Execute Query button: onClick={fetchWeatherData}, disabled={loading}
Refresh ==
    /\ mounted
    /\ ~loading
    /\ issued < MaxRequests
    /\ FetchWeatherData(selectedRegion, selectedParameter)
    /\ UNCHANGED <<selectedRegion, selectedParameter, mounted>>

\* a continuation that leaves data as it was
ResumeWithoutSetData ==
    /\ pending # <<>>
    /\ loading' = FALSE
    /\ pending' = Tail(pending)
    /\ UNCHANGED <<data, dataReq, dataDraws, selectedRegion,
                   selectedParameter, currentYear, mounted, issued>>

\* the timer of the oldest suspended request fires (equal delays fire in the
\* order they were set): setData(mockData), then finally setLoading(false)
Resume ==
    /\ pending # <<>>
    /\ data' = Head(pending).mockData
    /\ dataReq' = Head(pending).id
    /\ dataDraws' = Head(pending).draws
    /\ loading' = FALSE
    /\ pending' = Tail(pending)
    /\ UNCHANGED <<selectedRegion, selectedParameter, currentYear, mounted,
                   issued>>

----------------------------------------------------------------------------
(* Specifications *)

InitState ==
    /\ data = <<>>
    /\ loading = FALSE
    /\ mounted = FALSE
    /\ pending = <<>>
    /\ issued = 0
    /\ dataReq = 0
    /\ dataDraws = <<>>
    /\ currentYear \in (BaseYear + 1)..(BaseYear + MaxYears)

\* the dashboard as the user drives it
Init ==
    /\ InitState
    /\ selectedRegion = "UK"
    /\ selectedParameter = "Tmax"

Next ==
    \/ Mount
    \/ \E r \in RegionValues : SelectRegion(r)
    \/ \E p \in ParameterValues : SelectParameter(p)
    \/ Refresh
    \/ Resume

Spec == Init /\ [][Next]_vars

\* the 1200 ms timer always fires
LiveSpec == Spec /\ WF_vars(Resume)

\* the generator on every input, the two unlisted strings included
GenInit ==
    /\ InitState
    /\ selectedRegion \in RegionInputs
    /\ selectedParameter \in ParameterInputs

GenNext ==
    \/ Mount
    \/ Refresh
    \/ Resume

GenSpec == GenInit /\ [][GenNext]_vars

----------------------------------------------------------------------------
(* Properties of the generator, checked under GenSpec *)

\* every series generated so far, with the draws it was generated from
Runs ==
    { [s |-> pending[k].mockData, d |-> pending[k].draws] :
        k \in 1..Len(pending) }
      \cup (IF dataReq > 0 THEN {[s |-> data, d |-> dataDraws]} ELSE {})

Recognized(run) ==
    /\ run.s[1].region \in RegionValues
    /\ run.s[1].parameter \in ParameterValues

\* a random source that always returns 0.5
NoiseSuppressed(run) == \A k \in 1..Len(run.s) : run.d[k] = 500

\* C1: for every recognized (region, parameter) pair, year range and draw,
\* every point of the generated series has value >= 0.
C1_ValueNonNegative ==
    \A run \in Runs :
        Recognized(run) => \A j \in 1..Len(run.s) : run.s[j].value >= 0

\* the coldest pair, two years, the lowest draw at the second index
C1_Witness ==
    \E run \in Runs :
        /\ run.s[1].region = "Scotland"
        /\ run.s[1].parameter = "Tmin"
        /\ Len(run.s) = 2
        /\ run.d[2] = 0
        /\ run.s[2].value > 0

\* C2: the generated series has exactly currentYear - baseYear points, the
\* point at index i has year baseYear + i, so the years increase strictly
\* from baseYear to currentYear - 1.
C2_LengthAndYears ==
    \A run \in Runs :
        /\ Len(run.s) = currentYear - BaseYear
        /\ \A j \in 1..Len(run.s) : run.s[j].year = BaseYear + (j - 1)
        /\ \A j \in 1..(Len(run.s) - 1) : run.s[j].year < run.s[j + 1].year
        /\ run.s[1].year = BaseYear
        /\ run.s[Len(run.s)].year = currentYear - 1

C2_Witness ==
    \E run \in Runs :
        /\ Len(run.s) = 2
        /\ run.s[1].year = 1884
        /\ run.s[2].year = 1885
        /\ currentYear = 1886

\* C3 as stated: for an unrecognized region combined with any parameter,
\* every value is exactly 100.
C3_UnrecognizedRegionIsNeutral ==
    \A run \in Runs :
        run.s[1].region \notin RegionValues =>
            \A j \in 1..Len(run.s) : run.s[j].value = 100000

\* the constant each case of the switch ends in
LastBaseline(parameter) ==
    CASE parameter = "Tmax"     -> 15100
      [] parameter = "Tmin"     -> 6800
      [] parameter = "Tmean"    -> 11000
      [] parameter = "Rainfall" -> 1154000
      [] parameter = "Sunshine" -> 1400000

\* C3 amended: for an unrecognized region every value is exactly 100 only
\* when the parameter is unrecognized too; with a recognized parameter the
\* region takes the constant that parameter's case ends in, so with noise
\* suppressed the first point equals that constant.
C3_UnrecognizedRegionTakesLastBaseline ==
    \A run \in Runs :
        run.s[1].region \notin RegionValues =>
            /\ run.s[1].parameter \notin ParameterValues =>
                  \A j \in 1..Len(run.s) : run.s[j].value = 100000
            /\ (run.s[1].parameter \in ParameterValues /\ run.d[1] = 500) =>
                  run.s[1].value = LastBaseline(run.s[1].parameter)

C3_Witness ==
    \E run \in Runs :
        /\ run.s[1].region = "Atlantis"
        /\ run.s[1].parameter = "Tmax"
        /\ run.d[1] = 500
        /\ run.s[1].value = 15100

\* C4: for an unrecognized parameter and any region, with a random source
\* that always returns 0.5 every point has value exactly 100, and the
\* series is produced in full.
C4_UnrecognizedParameterIsNeutral ==
    \A run \in Runs :
        (run.s[1].parameter \notin ParameterValues /\ NoiseSuppressed(run)) =>
            /\ Len(run.s) = currentYear - BaseYear
            /\ \A j \in 1..Len(run.s) : run.s[j].value = 100000

C4_Witness ==
    \E run \in Runs :
        /\ run.s[1].parameter = "Humidity"
        /\ run.s[1].region = "Wales"
        /\ NoiseSuppressed(run)
        /\ Len(run.s) = 2
        /\ run.s[2].value = 100000

\* the default column of the constant table
TableDefault(parameter) ==
    CASE parameter = "Tmax"     -> 14800
      [] parameter = "Tmin"     -> 6200
      [] parameter = "Tmean"    -> 10500
      [] parameter = "Rainfall" -> 1154000
      [] parameter = "Sunshine" -> 1400000

\* C5 as stated: a region with no explicit override for the parameter uses
\* the table's default (Tmax 14.8, Tmin 6.2, Tmean 10.5, Rainfall 1154,
\* Sunshine 1400); with noise suppressed the first point of UK/Tmax is 14.8
\* and the first point of any region is baseline(region, parameter).
C5_DefaultBaselineFromTable ==
    \A run \in Runs :
        (Recognized(run) /\ run.d[1] = 500) =>
            /\ run.s[1].region \notin NamedRegions(run.s[1].parameter) =>
                  run.s[1].value = TableDefault(run.s[1].parameter)
            /\ (run.s[1].region = "UK" /\ run.s[1].parameter = "Tmax") =>
                  run.s[1].value = 14800
            /\ run.s[1].value = BaseValue(run.s[1].region, run.s[1].parameter)

\* C5 amended: a region the parameter's case does not name uses the constant
\* the case ends in (Tmax 15.1, Tmin 6.8, Tmean 11.0, Rainfall 1154,
\* Sunshine 1400; 14.8, 6.2 and 10.5 are the UK's own); with noise
\* suppressed the first point of UK/Tmax is 14.8 and the first point of any
\* region is baseline(region, parameter).
C5_DefaultBaselineIsLast ==
    \A run \in Runs :
        (Recognized(run) /\ run.d[1] = 500) =>
            /\ run.s[1].region \notin NamedRegions(run.s[1].parameter) =>
                  run.s[1].value = LastBaseline(run.s[1].parameter)
            /\ (run.s[1].region = "UK" /\ run.s[1].parameter = "Tmax") =>
                  run.s[1].value = 14800
            /\ (run.s[1].region = "UK" /\ run.s[1].parameter = "Tmin") =>
                  run.s[1].value = 6200
            /\ (run.s[1].region = "UK" /\ run.s[1].parameter = "Tmean") =>
                  run.s[1].value = 10500
            /\ run.s[1].value = BaseValue(run.s[1].region, run.s[1].parameter)

C5_Witness ==
    \E run \in Runs :
        /\ run.s[1].region = "England"
        /\ run.s[1].parameter = "Tmax"
        /\ run.d[1] = 500
        /\ run.s[1].value = 15100

----------------------------------------------------------------------------
(* Properties of the dashboard, checked under Spec and LiveSpec *)

\* C6: once no request is pending, the displayed series is the one the most
\* recently issued request produced; and data is never set by a request
\* issued earlier than the one that set it last.
C6_LatestRequestDisplayed ==
    /\ [](pending = <<>> /\ issued > 0 => dataReq = issued)
    /\ [][dataReq' >= dataReq]_vars

\* three requests issued and completed, the last one on display
C6_Witness ==
    /\ pending = <<>>
    /\ issued = 3
    /\ dataReq = 3
    /\ Len(data) > 0

\* every point of the displayed series carries the current selection
DataMatchesSelection ==
    /\ Len(data) > 0
    /\ \A j \in 1..Len(data) :
          /\ data[j].region = selectedRegion
          /\ data[j].parameter = selectedParameter

\* C7: every change of the selected region or parameter and every manual
\* refresh issues a request, and with the delay timer firing the request
\* completes: loading is false again and every displayed point carries the
\* current selection.
C7_RequestIssuedAndCompleted ==
    /\ [][(\/ selectedRegion' # selectedRegion
           \/ selectedParameter' # selectedParameter
           \/ Refresh)
          => (issued' = issued + 1 /\ loading' /\ Len(pending') = Len(pending) + 1)]_vars
    /\ (loading ~> (~loading /\ DataMatchesSelection))

\* a change of region and a change of parameter, both completed
C7_Witness ==
    /\ ~loading
    /\ issued = 3
    /\ selectedRegion # "UK"
    /\ selectedParameter # "Tmax"
    /\ DataMatchesSelection

\* C8: for a non-empty displayed series, trend is the last value minus the
\* first value (0 for a one-point series).
C8_TrendIsLastMinusFirst ==
    Len(data) > 0 =>
        /\ trend = data[Len(data)].value - data[1].value
        /\ Len(data) = 1 => trend = 0

C8_Witness ==
    /\ Len(data) = 2
    /\ trend < 0
    /\ trend = data[2].value - data[1].value

RECURSIVE MinValue(_)
MinValue(a) ==
    IF Len(a) = 1 THEN a[1].value
    ELSE LET m == MinValue(Tail(a))
         IN  IF a[1].value < m THEN a[1].value ELSE m

RECURSIVE MaxValue(_)
MaxValue(a) ==
    IF Len(a) = 1 THEN a[1].value
    ELSE LET m == MaxValue(Tail(a))
         IN  IF a[1].value > m THEN a[1].value ELSE m

\* C9: for a non-empty displayed series, average is at least the minimum
\* and at most the maximum of the values.
C9_AverageWithinRange ==
    Len(data) > 0 =>
        /\ MinValue(data) <= average
        /\ average <= MaxValue(data)

C9_Witness ==
    /\ Len(data) = 2
    /\ MinValue(data) < average
    /\ average < MaxValue(data)

\* C10: for the empty series average is 0, trend is 0, latest is undefined,
\* and the statistics and the chart are not displayed.
C10_EmptySeriesStatistics ==
    Len(data) = 0 =>
        /\ average = 0
        /\ trend = 0
        /\ latest = Undefined
        /\ ~statsDisplayed

\* the first request is issued and has not completed
C10_Witness ==
    /\ Len(data) = 0
    /\ loading
    /\ Len(pending) = 1
    /\ average = 0
    /\ latest = Undefined

\* C11: whenever the statistics and the chart are displayed, also while a
\* request is loading, every point of the displayed series has the selected
\* region and the selected parameter, so its value is formatted with the
\* unit of the parameter it was generated for.
C11_DisplayedSeriesMatchesSelection ==
    statsDisplayed =>
        \A j \in 1..Len(data) :
            /\ data[j].parameter = selectedParameter
            /\ data[j].region = selectedRegion
            /\ Unit(data[j].parameter) = displayedUnit

\* C12: at most one request is in flight: loading is true exactly from the
\* issue of a request to its completion, and no selection change or refresh
\* issues a request while another is in flight.
C12_AtMostOneRequestInFlight ==
    /\ [](Len(pending) <= 1)
    /\ [](loading <=> pending # <<>>)
    /\ [][issued' # issued => (~loading /\ pending = <<>> /\ loading')]_vars
    /\ [][(\/ selectedRegion' # selectedRegion
           \/ selectedParameter' # selectedParameter) => ~loading]_vars

\* a second request in flight after the first has completed
C12_Witness ==
    /\ loading
    /\ Len(pending) = 1
    /\ issued = 2
    /\ dataReq = 1

\* C13: for every recognized pair, index and draw, the sum baseline +
\* seasonal + trend + noise is strictly positive, so Math.max(0, .) leaves
\* it as it is and no generated value is 0.  Stated of every point
\* generated, and, for the pair of each first request (every pair is one),
\* of the sum at every index of a range of Horizon years.
C13_SumStrictlyPositive ==
    /\ \A run \in Runs :
          Recognized(run) =>
              \A j \in 1..Len(run.s) :
                  LET sum == ComponentSum(run.s[1].region, run.s[1].parameter,
                                          j - 1, Len(run.s), run.d[j])
                  IN  /\ sum > 0
                      /\ run.s[j].value = sum
                      /\ run.s[j].value # 0
    /\ \A k \in 1..Len(pending) :
          (/\ pending[k].id = 1
           /\ pending[k].mockData[1].region \in RegionValues
           /\ pending[k].mockData[1].parameter \in ParameterValues) =>
              \A i \in 0..(Horizon - 1) : \A r \in Draws :
                  ComponentSum(pending[k].mockData[1].region,
                               pending[k].mockData[1].parameter,
                               i, Horizon, r) > 0

\* the pair with the lowest baseline, at the lowest draw
C13_Witness ==
    \E run \in Runs :
        /\ run.s[1].region = "Scotland"
        /\ run.s[1].parameter = "Tmin"
        /\ Len(run.s) = 2
        /\ run.d[2] = 0
        /\ run.s[2].value = ComponentSum("Scotland", "Tmin", 1, 2, 0)
        /\ run.s[2].value > 0
        /\ \E i \in 0..(Horizon - 1) : SeasonalVariation(i, "Tmin") < -890

====
